---- MODULE Spec2Model ----
(***************************************************************************)
(* A model of streamlit_app.py: one script run per user interaction.  A    *)
(* run loads the cached dataset, obtains the USD -> EUR rate through a     *)
(* 12-hour cache in front of one HTTP request, reads the two filter        *)
(* widgets, filters and pivots the dataset, converts it and renders it.    *)
(***************************************************************************)
EXTENDS Integers, Sequences, FiniteSets, TLC

VARIABLES
    df,               \* the dataset returned by load_data(): a sequence of rows
    now,              \* the clock, in ticks of TickSeconds seconds
    rateCache,        \* the cache entry of load_usd_to_eur_rate
    pc,               \* position of the current script run
    out,              \* the elements the current run has rendered, in order
    call,             \* outcome of the latest call of load_usd_to_eur_rate
    netCalls,         \* network requests issued by the current run
    win,              \* history: the latest cache window and its traffic
    usd_to_eur_rate,  \* the script's variables of the same names
    fx_date,
    genres,
    years,
    df_reshaped,
    df_reshaped_eur,
    caption           \* the (rate, date) pair the caption shows, <<>> if none

vars == <<df, now, rateCache, pc, out, call, netCalls, win, usd_to_eur_rate,
          fx_date, genres, years, df_reshaped, df_reshaped_eur, caption>>

(***************************************************************************)
(* Bounds of the model.                                                    *)
(***************************************************************************)
MaxTicks == 4
MaxRecords == 3

Years == 2000 .. 2002
GenreList == <<"Comedy", "Drama">>
Grosses == {1, 2}

(***************************************************************************)
(* Time.  ttl=60 * 60 * 12 seconds; the clock advances in half-windows.    *)
(***************************************************************************)
TTL == 60 * 60 * 12
TickSeconds == (60 * 60 * 12) \div 2

(***************************************************************************)
(* JSON values as json.loads returns them.                                 *)
(***************************************************************************)
JNull == [t |-> "null"]
JList == [t |-> "list"]
JNum(n) == [t |-> "num", v |-> n]
JStr(s) == [t |-> "str", s |-> s]
JObj(f) == [t |-> "obj", f |-> f]

Ok(v) == [ok |-> TRUE, v |-> v, exc |-> ""]
Raise(e) == [ok |-> FALSE, v |-> JNull, exc |-> e]

\* x[key] for a string key
Subscript(x, key) ==
    IF x.t = "obj"
    THEN IF key \in DOMAIN x.f THEN Ok(x.f[key]) ELSE Raise("KeyError")
    ELSE Raise("TypeError")

\* the strings of the model that float() parses, with their values
NumericStrings == [s \in {"3"} |-> 3]

\* float(x)
PyFloat(x) ==
    CASE x.t = "num" -> Ok(x.v)
      [] x.t = "str" -> IF x.s \in DOMAIN NumericStrings
                        THEN Ok(NumericStrings[x.s])
                        ELSE Raise("ValueError")
      [] OTHER -> Raise("TypeError")

(***************************************************************************)
(* What the network can answer to the one request.                         *)
(***************************************************************************)
NetFail(e) == [net |-> e, enc |-> "utf-8", json |-> TRUE, doc |-> JNull]
Body(doc) == [net |-> "ok", enc |-> "utf-8", json |-> TRUE, doc |-> doc]

ResponseList == <<
    NetFail("URLError"),
    NetFail("HTTPError"),
    NetFail("TimeoutError"),
    [net |-> "ok", enc |-> "bad", json |-> TRUE, doc |-> JNull],
    [net |-> "ok", enc |-> "utf-8", json |-> FALSE, doc |-> JNull],
    Body(JObj([date |-> JStr("2024-01-01")])),
    Body(JObj([rates |-> JObj([USD |-> JNum(1)]), date |-> JStr("2024-01-01")])),
    Body(JObj([rates |-> JObj([EUR |-> JNum(2)])])),
    Body(JObj([rates |-> JObj([EUR |-> JStr("abc")]), date |-> JStr("2024-01-01")])),
    Body(JObj([rates |-> JObj([EUR |-> JNull]), date |-> JStr("2024-01-01")])),
    Body(JObj([rates |-> JObj([EUR |-> JList]), date |-> JStr("2024-01-01")])),
    Body(JObj([rates |-> JNull, date |-> JStr("2024-01-01")])),
    Body(JList),
    Body(JObj([rates |-> JObj([EUR |-> JNum(2)]), date |-> JStr("2024-01-01")])),
    Body(JObj([rates |-> JObj([EUR |-> JStr("3")]), date |-> JStr("2024-01-02")])) >>

\* the body of load_usd_to_eur_rate on a cache miss
FetchBody(resp) ==
    IF resp.net # "ok" THEN Raise(resp.net)
    ELSE IF resp.enc # "utf-8" THEN Raise("UnicodeDecodeError")
    ELSE IF ~resp.json THEN Raise("JSONDecodeError")
    ELSE LET payload == resp.doc
             rates == Subscript(payload, "rates")
         IN  IF ~rates.ok THEN rates
             ELSE LET eur == Subscript(rates.v, "EUR")
                  IN  IF ~eur.ok THEN eur
                      ELSE LET rate == PyFloat(eur.v)
                           IN  IF ~rate.ok THEN rate
                               ELSE LET date == Subscript(payload, "date")
                                    IN  IF ~date.ok THEN date
                                        ELSE Ok(<<rate.v, date.v>>)

(***************************************************************************)
(* Exceptions: the class hierarchy and the except clause.                  *)
(***************************************************************************)
ExcBase == [HTTPError |-> "URLError", URLError |-> "OSError",
            TimeoutError |-> "OSError", OSError |-> "Exception",
            JSONDecodeError |-> "ValueError",
            UnicodeDecodeError |-> "ValueError", ValueError |-> "Exception",
            KeyError |-> "LookupError", LookupError |-> "Exception",
            TypeError |-> "Exception"]

RECURSIVE IsInstance(_, _)
IsInstance(e, c) ==
    \/ e = c
    \/ e \in DOMAIN ExcBase /\ IsInstance(ExcBase[e], c)

CaughtClasses == {"URLError", "TimeoutError", "KeyError", "ValueError",
                  "JSONDecodeError"}

Caught(e) == \E c \in CaughtClasses : IsInstance(e, c)

(***************************************************************************)
(* The rate cache: st.cache_data(ttl=...).                                 *)
(***************************************************************************)
NoEntry == [present |-> FALSE, value |-> <<>>, storedAt |-> 0]

\* variant: the ttl taken as 60 * 12 seconds
FreshMinutes(cache, t) ==
    cache.present /\ (t - cache.storedAt) * TickSeconds < 60 * 12

Fresh(cache, t) ==
    cache.present /\ (t - cache.storedAt) * TickSeconds < TTL

\* variant: a hit restarts the window
CacheAfterHitSliding(cache, t) == [cache EXCEPT !.storedAt = t]

CacheAfterHit(cache, t) == cache

\* variant: a failed fetch revives the stale entry
CacheAfterMissKeepStale(cache, r, t) ==
    IF r.ok THEN [present |-> TRUE, value |-> r.v, storedAt |-> t]
    ELSE IF cache.present THEN [cache EXCEPT !.storedAt = t] ELSE cache

CacheAfterMiss(cache, r, t) ==
    IF r.ok THEN [present |-> TRUE, value |-> r.v, storedAt |-> t] ELSE cache

\* one call of the cached function: its result, the cache after it, and the
\* number of network requests it issued
LoadUsdToEurRate(cache, t, resp) ==
    IF Fresh(cache, t)
    THEN [res |-> Ok(cache.value), cache |-> CacheAfterHit(cache, t), net |-> 0]
    ELSE LET r == FetchBody(resp)
         IN  [res |-> r, cache |-> CacheAfterMiss(cache, r, t), net |-> 1]

(***************************************************************************)
(* The dataset: rows of data/movies_genres_summary.csv.                    *)
(***************************************************************************)
Genres == {GenreList[i] : i \in DOMAIN GenreList}

Records == [year : Years, genre : Genres, gross : Grosses]

GenreRank(g) == CHOOSE i \in DOMAIN GenreList : GenreList[i] = g

\* the summary file lists its rows by year, then genre
RowRank(r) == (r.year * (Len(GenreList) + 1) + GenreRank(r.genre)) * 10 + r.gross

Datasets ==
    {d \in UNION {[1 .. n -> Records] : n \in 0 .. MaxRecords} :
        \A i \in 1 .. Len(d) - 1 : RowRank(d[i]) <= RowRank(d[i + 1])}

ScenarioData == << [year |-> 2001, genre |-> "Comedy", gross |-> 1],
                   [year |-> 2001, genre |-> "Drama", gross |-> 2] >>

\* df.genre.unique(): the options of the multiselect
GenreOptions(d) == {d[i].genre : i \in DOMAIN d}

\* the (low, high) pairs the range slider can return
YearRanges == {ys \in Years \X Years : ys[1] <= ys[2]}

(***************************************************************************)
(* Filter, pivot, sort, convert.                                           *)
(***************************************************************************)
\* variant: the range without its bounds
BetweenExclusive(y, lo, hi) == lo < y /\ y < hi

\* Series.between(left, right), inclusive on both sides
Between(y, lo, hi) == lo <= y /\ y <= hi

\* variant: the two masks joined by | instead of &
FilterOr(d, gs, ys) ==
    LET Keep(r) == r.genre \in gs \/ Between(r.year, ys[1], ys[2])
    IN  SelectSeq(d, Keep)

\* df[(df["genre"].isin(genres)) & (df["year"].between(years[0], years[1]))]
Filter(d, gs, ys) ==
    LET Keep(r) == r.genre \in gs /\ Between(r.year, ys[1], ys[2])
    IN  SelectSeq(d, Keep)

FillValue == 0

RECURSIVE SumGross(_, _, _)
\* aggfunc="sum" over the rows of one (year, genre) group
SumGross(d, y, g) ==
    IF d = <<>> THEN 0
    ELSE (IF Head(d).year = y /\ Head(d).genre = g THEN Head(d).gross ELSE 0)
         + SumGross(Tail(d), y, g)

RECURSIVE SortAsc(_)
SortAsc(S) ==
    IF S = {} THEN <<>>
    ELSE LET m == CHOOSE x \in S : \A y \in S : x <= y
         IN  <<m>> \o SortAsc(S \ {m})

\* variant: a column for every genre, as for a categorical column
PivotTableAllGenres(d) ==
    LET ys == {d[i].year : i \in DOMAIN d}
        groups == {<<d[i].year, d[i].genre>> : i \in DOMAIN d}
    IN  [index |-> SortAsc(ys),
         columns |-> Genres,
         cell |-> [p \in ys \X Genres |->
                     IF p \in groups THEN SumGross(d, p[1], p[2])
                     ELSE FillValue]]

\* pivot_table(index="year", columns="genre", values="gross", aggfunc="sum",
\*             fill_value=0): the groups present in d, unstacked
PivotTable(d) ==
    LET ys == {d[i].year : i \in DOMAIN d}
        gs == {d[i].genre : i \in DOMAIN d}
        groups == {<<d[i].year, d[i].genre>> : i \in DOMAIN d}
    IN  [index |-> SortAsc(ys),
         columns |-> gs,
         cell |-> [p \in ys \X gs |->
                     IF p \in groups THEN SumGross(d, p[1], p[2])
                     ELSE FillValue]]

RECURSIVE SortDesc(_)
SortDesc(S) ==
    IF S = {} THEN <<>>
    ELSE LET m == CHOOSE x \in S : \A y \in S : y <= x
         IN  <<m>> \o SortDesc(S \ {m})

\* variant: the pivot's ascending order kept
SortValuesNoop(m) == m

\* sort_values(by="year", ascending=False)
SortValues(m) ==
    [m EXCEPT !.index = SortDesc({m.index[i] : i \in DOMAIN m.index})]

\* variant: the conversion left out
TimesRateDropped(m, rate) == m

\* df_reshaped * usd_to_eur_rate
TimesRate(m, rate) ==
    [m EXCEPT !.cell = [p \in DOMAIN m.cell |-> m.cell[p] * rate]]

NoFrame == [index |-> <<>>, columns |-> {}, cell |-> <<>>]

(***************************************************************************)
(* The script run.                                                         *)
(***************************************************************************)
NoCall == [kind |-> "none", value |-> <<>>, exc |-> "", inWin |-> FALSE,
           found |-> "absent"]
NoWin == [at |-> -1, pair |-> <<>>, reqs |-> 0]

InWindow(w, t) == w.at >= 0 /\ (t - w.at) * TickSeconds < TTL

\* what a call at time t finds in the cache, by the entry's age
Found(cache, t) ==
    IF ~cache.present THEN "absent"
    ELSE IF (t - cache.storedAt) * TickSeconds < TTL THEN "fresh"
    ELSE "expired"

InitCommon ==
    /\ now = 0
    /\ rateCache = NoEntry
    /\ pc = "idle"
    /\ out = <<>>
    /\ call = NoCall
    /\ netCalls = 0
    /\ win = NoWin
    /\ usd_to_eur_rate = 0
    /\ fx_date = JNull
    /\ genres = {}
    /\ years = <<>>
    /\ df_reshaped = NoFrame
    /\ df_reshaped_eur = NoFrame
    /\ caption = <<>>

Init == df = ScenarioData /\ InitCommon

InitPipe == df \in Datasets /\ InitCommon

\* time passes
ClockAdvance ==
    /\ now < MaxTicks
    /\ now' = now + 1
    /\ UNCHANGED <<df, rateCache, pc, out, call, netCalls, win, usd_to_eur_rate,
                   fx_date, genres, years, df_reshaped, df_reshaped_eur, caption>>

\* a rerun begins: the page header, then df = load_data()
StartRun ==
    /\ pc \in {"idle", "done", "stopped", "crashed"}
    /\ pc' = "loaded"
    /\ out' = <<"title", "write">>
    /\ netCalls' = 0
    /\ usd_to_eur_rate' = 0
    /\ fx_date' = JNull
    /\ genres' = {}
    /\ years' = <<>>
    /\ df_reshaped' = NoFrame
    /\ df_reshaped_eur' = NoFrame
    /\ caption' = <<>>
    /\ UNCHANGED <<df, now, rateCache, call, win>>

\* try: usd_to_eur_rate, fx_date = load_usd_to_eur_rate()
\* except (...): st.error(...); st.stop()
FetchRate(resp) ==
    /\ pc = "loaded"
    /\ LET c == LoadUsdToEurRate(rateCache, now, resp)
           inw == InWindow(win, now)
       IN  /\ rateCache' = c.cache
           /\ netCalls' = netCalls + c.net
           /\ call' = [kind |-> IF ~c.res.ok THEN "raised"
                                ELSE IF c.net = 0 THEN "hit" ELSE "fetched",
                       value |-> IF c.res.ok THEN c.res.v ELSE <<>>,
                       exc |-> c.res.exc,
                       inWin |-> inw,
                       found |-> Found(rateCache, now)]
           /\ win' = IF inw THEN [win EXCEPT !.reqs = @ + c.net]
                     ELSE IF c.res.ok /\ c.net = 1
                     THEN [at |-> now, pair |-> c.res.v, reqs |-> 1]
                     ELSE win
           /\ IF c.res.ok
              THEN /\ usd_to_eur_rate' = c.res.v[1]
                   /\ fx_date' = c.res.v[2]
                   /\ pc' = "fetched"
                   /\ out' = out
              ELSE /\ UNCHANGED <<usd_to_eur_rate, fx_date>>
                   /\ IF Caught(c.res.exc)
                      THEN /\ out' = Append(out, "error")
                           /\ pc' = "stopped"
                      ELSE /\ out' = out
                           /\ pc' = "crashed"
    /\ UNCHANGED <<df, now, genres, years, df_reshaped, df_reshaped_eur, caption>>

\* genres = st.multiselect(...); years = st.slider(...)
Widgets(gs, ys) ==
    /\ pc = "fetched"
    /\ genres' = gs
    /\ years' = ys
    /\ out' = out \o <<"multiselect", "slider">>
    /\ pc' = "selected"
    /\ UNCHANGED <<df, now, rateCache, call, netCalls, win, usd_to_eur_rate,
                   fx_date, df_reshaped, df_reshaped_eur, caption>>

\* df_filtered, df_reshaped, df_reshaped_eur
Reshape ==
    /\ pc = "selected"
    /\ LET df_filtered == Filter(df, genres, years)
           reshaped == SortValues(PivotTable(df_filtered))
       IN  /\ df_reshaped' = reshaped
           /\ df_reshaped_eur' = TimesRate(reshaped, usd_to_eur_rate)
    /\ pc' = "reshaped"
    /\ UNCHANGED <<df, now, rateCache, out, call, netCalls, win, usd_to_eur_rate,
                   fx_date, genres, years, caption>>

\* st.caption(...); st.dataframe(...); st.altair_chart(...)
Render ==
    /\ pc = "reshaped"
    /\ caption' = <<usd_to_eur_rate, fx_date>>
    /\ out' = out \o <<"caption", "dataframe", "altair_chart">>
    /\ pc' = "done"
    /\ UNCHANGED <<df, now, rateCache, call, netCalls, win, usd_to_eur_rate,
                   fx_date, genres, years, df_reshaped, df_reshaped_eur>>

Run ==
    \/ StartRun
    \/ \E i \in DOMAIN ResponseList : FetchRate(ResponseList[i])
    \/ \E gs \in SUBSET GenreOptions(df), ys \in YearRanges : Widgets(gs, ys)
    \/ Reshape
    \/ Render

Next == ClockAdvance \/ Run

Spec == Init /\ [][Next]_vars

NextPipe == Run

SpecPipe == InitPipe /\ [][NextPipe]_vars

(***************************************************************************)
(* Properties.                                                             *)
(***************************************************************************)
Computed == pc \in {"reshaped", "done"}

FailedRun == call.kind = "raised" /\ pc # "loaded"

FetchStep == pc = "loaded" /\ pc' # "loaded"

Shown(w) == \E i \in DOMAIN out : out[i] = w

Count(w) == Cardinality({i \in DOMAIN out : out[i] = w})

RowsOf(m) == {m.index[i] : i \in DOMAIN m.index}

\* the records the selection keeps: genre selected, year in the inclusive range
Kept == {i \in DOMAIN df : /\ df[i].genre \in genres
                           /\ years[1] <= df[i].year
                           /\ df[i].year <= years[2]}

RECURSIVE TotalOver(_, _, _)
TotalOver(I, y, g) ==
    IF I = {} THEN 0
    ELSE LET i == CHOOSE k \in I : TRUE
         IN  (IF df[i].year = y /\ df[i].genre = g THEN df[i].gross ELSE 0)
             + TotalOver(I \ {i}, y, g)

\* C1: every failure of the rate fetch ends the run in the single "rate
\* unavailable" state: the error message is shown and the run is stopped,
\* never an uncaught exception.
C1_EveryFailureIsRateUnavailable ==
    FailedRun => pc = "stopped" /\ out[Len(out)] = "error"

\* C2: in a run whose rate fetch failed exactly one error message is
\* displayed, and neither the controls, the caption, the table, the chart nor
\* any rate value is rendered in that run.
C2_FailedRunShowsOneErrorOnly ==
    FailedRun =>
        /\ Count("error") = 1
        /\ \A w \in {"multiselect", "slider", "caption", "dataframe",
                     "altair_chart"} : ~Shown(w)
        /\ caption = <<>>

\* C3: every call of the rate fetch made inside the 12-hour window that a
\* successful network fetch opened returns the pair that fetch returned, and
\* the window sees at most one network request (the one that opened it).
C3_WindowIdempotent ==
    /\ win.reqs <= 1
    /\ call.inWin => call.kind = "hit" /\ call.value = win.pair

C3_Witness ==
    call.inWin /\ call.kind = "hit" /\ now > win.at /\ pc = "done"

\* C4: the window is 12 hours from the fetch that stored the entry and a hit
\* does not extend it: a call that finds the entry younger than 12 hours
\* returns it with no network request and leaves it as it is; a call that
\* finds it 12 hours old or older issues one network request, and a successful
\* one replaces the entry by the new pair, stored at the time of that call.
C4_WindowFromFetch ==
    [][FetchStep =>
          LET age == (now - rateCache.storedAt) * TickSeconds
          IN  /\ (rateCache.present /\ age < TTL) =>
                    /\ netCalls' = 0
                    /\ call'.kind = "hit"
                    /\ call'.value = rateCache.value
                    /\ rateCache' = rateCache
              /\ (rateCache.present /\ age >= TTL) =>
                    /\ netCalls' = 1
                    /\ call'.kind \in {"fetched", "raised"}
                    /\ call'.kind = "fetched" =>
                          rateCache' = [present |-> TRUE,
                                        value |-> call'.value,
                                        storedAt |-> now]]_vars

C4_Witness ==
    /\ call.kind = "fetched"
    /\ call.found = "expired"
    /\ rateCache.storedAt = now
    /\ rateCache.value = <<usd_to_eur_rate, fx_date>>

\* C5: each cell (y, g) of the converted matrix is the rate times the sum of
\* gross over the records with year y and genre g, which is 0 for a cell
\* whose row and column are present but that has no record.
C5_CellIsRateTimesSum ==
    Computed =>
        /\ DOMAIN df_reshaped_eur.cell
             = RowsOf(df_reshaped_eur) \X df_reshaped_eur.columns
        /\ \A p \in DOMAIN df_reshaped_eur.cell :
              df_reshaped_eur.cell[p]
                = usd_to_eur_rate * TotalOver(DOMAIN df, p[1], p[2])

C5_Witness ==
    /\ pc = "done"
    /\ \E p \in DOMAIN df_reshaped_eur.cell :
          /\ Cardinality({i \in DOMAIN df : df[i].year = p[1]
                                            /\ df[i].genre = p[2]}) = 2
          /\ df_reshaped_eur.cell[p] > usd_to_eur_rate * 2
    /\ \E p \in DOMAIN df_reshaped_eur.cell : df_reshaped_eur.cell[p] = 0

\* C6 as stated: the reshaped matrix has one column for every selected genre;
\* a selected genre with no record in the year range is an all-zero column.
C6_ColumnPerSelectedGenre ==
    Computed =>
        /\ df_reshaped.columns = genres
        /\ \A g \in genres :
              (\A i \in Kept : df[i].genre # g) =>
                  \A y \in RowsOf(df_reshaped) : df_reshaped.cell[<<y, g>>] = 0

\* C6 amended: the columns of the reshaped matrix are exactly the selected
\* genres that have a record in the selected year range (a selected genre
\* with none has no column), and a cell of a present row and column that has
\* no record is 0.
C6_ColumnPerMatchedGenre ==
    Computed =>
        /\ df_reshaped.columns = {df[i].genre : i \in Kept}
        /\ \A y \in RowsOf(df_reshaped), g \in df_reshaped.columns :
              (\A i \in Kept : ~(df[i].year = y /\ df[i].genre = g)) =>
                  df_reshaped.cell[<<y, g>>] = 0

C6_Witness ==
    /\ Computed
    /\ df_reshaped.columns # {}
    /\ \E g \in genres : g \notin df_reshaped.columns

\* C7: every row year of the reshaped matrix lies in the inclusive selected
\* range, every column genre is selected, and the two bounds of the range are
\* rows when a selected genre has a record in that year.
C7_RowsInRangeColumnsSelected ==
    Computed =>
        /\ \A y \in RowsOf(df_reshaped) : years[1] <= y /\ y <= years[2]
        /\ df_reshaped.columns \subseteq genres
        /\ \A i \in DOMAIN df :
              (df[i].genre \in genres /\ df[i].year \in {years[1], years[2]})
                  => df[i].year \in RowsOf(df_reshaped)

C7_Witness ==
    /\ Computed
    /\ years[1] < years[2]
    /\ {years[1], years[2]} \subseteq RowsOf(df_reshaped)
    /\ \E i \in DOMAIN df : df[i].genre \notin genres

\* C8: with no genre selected, or with no record's year in the selected
\* range, both matrices have zero rows, and the run goes on to render the
\* table and the chart.
C8_EmptySelectionRendersEmpty ==
    (Computed /\ (genres = {} \/ \A i \in DOMAIN df :
                      ~(years[1] <= df[i].year /\ df[i].year <= years[2]))) =>
        /\ df_reshaped.index = <<>>
        /\ df_reshaped_eur.index = <<>>
        /\ pc = "reshaped" => ENABLED Render
        /\ pc = "done" => Shown("dataframe") /\ Shown("altair_chart")

C8_Witness ==
    /\ pc = "done"
    /\ genres # {}
    /\ df # <<>>
    /\ \A i \in DOMAIN df : ~(years[1] <= df[i].year /\ df[i].year <= years[2])
    /\ df_reshaped_eur.index = <<>>
    /\ Shown("altair_chart")

\* C9: the rows of the reshaped and of the converted matrix are in strictly
\* descending year order, one row for each distinct year of the kept records.
C9_RowsStrictlyDescending ==
    Computed =>
        \A m \in {df_reshaped, df_reshaped_eur} :
            /\ \A i, j \in DOMAIN m.index : i < j => m.index[i] > m.index[j]
            /\ RowsOf(m) = {df[i].year : i \in Kept}
            /\ Len(m.index) = Cardinality({df[i].year : i \in Kept})

C9_Witness ==
    /\ Computed
    /\ Len(df_reshaped_eur.index) >= 2
    /\ \E i, j \in Kept : i # j /\ df[i].year = df[j].year
                          /\ df[i].genre = df[j].genre

\* C10: a run issues at most one network request, also when it fails; a
\* failed fetch leaves the cache as it was; the run after a failed fetch
\* issues a network request again; and the pair in a caption is the pair a
\* successful network fetch returned.
C10_NoRetryNoFailureCaching ==
    /\ [](netCalls <= 1)
    /\ [](caption # <<>> => win.at >= 0 /\ caption = win.pair)
    /\ [][FetchStep =>
            /\ call'.kind = "raised" => rateCache' = rateCache /\ netCalls' = 1
            /\ call.kind = "raised" => netCalls' = 1]_vars

C10_Witness ==
    /\ pc = "stopped"
    /\ call.kind = "raised"
    /\ call.found = "expired"
    /\ netCalls = 1
    /\ rateCache.present

====
